---- MODULE Spec2Model ----
(***************************************************************************)
(* Model of the operational scripts of the mirai repository:               *)
(*   scripts/load_test.py                 (Load Tester)                    *)
(*   scripts/compare_benchmarks.py        (Benchmark Comparator)           *)
(*   scripts/generate_benchmark_charts.py (Chart Generator)                *)
(*   scripts/generate_nightly_report.py   (Nightly Report Generator)       *)
(*                                                                         *)
(* The specifications below share one set of variables:                    *)
(*   Spec        a whole Load Tester run: launch, sessions, gather,        *)
(*               aggregation, report, files, exit status                   *)
(*   SpecReport  the tail of the Load Tester's main (report, files, exit)  *)
(*               started from an aggregate drawn from a bounded set, so    *)
(*               that the 80% and 95% thresholds are hit exactly           *)
(*   SpecBench   the Comparator and the Chart Generator applied to a       *)
(*               bounded current/baseline measurement list                 *)
(*   SpecMatch   the Comparator alone on longer lists with fewer values    *)
(*   SpecLaunch  the launch loop of the Load Tester alone, with enough     *)
(*               launches for the staggering pause to happen               *)
(*   SpecNightly one run of the Nightly Report Generator                   *)
(* Measurement values are integers, which is what json.load gives for       *)
(* integer literals; a computed float is exact: +inf or a rational.        *)
(* Times are integers (ticks); means and ratios are exact rationals        *)
(* <<numerator, denominator>> in lowest terms with a positive denominator. *)
(***************************************************************************)
EXTENDS Integers, Sequences, FiniteSets, TLC

\* ------------------------------------------------------------------ bounds
MaxConn == 2
MaxPackets == 1
MaxTime == 2
MaxTotal == 20
MaxDelta == 1
MaxBench == 1
MaxList == 3
MaxCount == 1
MaxLaunch == 21

\* ------------------------------------------------------- program constants
ErrorLimit == 10
StaggerEvery == 10

None == "None"
NoResult == [kind |-> "None"]
ExceptionResult == [kind |-> "exception"]
NoAggregate == [kind |-> "None"]
ExitSuccess == "exit 0"
ExitFailure == "exit 1"

\* ------------------------------------------------------------- arithmetic
Abs(x) == IF x < 0 THEN -x ELSE x

RECURSIVE Gcd(_, _)
Gcd(a, b) == IF b = 0 THEN a ELSE Gcd(b, a % b)

\* the rational n/d (d # 0) in lowest terms with a positive denominator
Rat(n, d) ==
    LET g == Gcd(Abs(n), Abs(d))
        sgn == IF d < 0 THEN -1 ELSE 1
    IN  <<sgn * (n \div g), sgn * (d \div g)>>

RatLt(p, q) == p[1] * q[2] < q[1] * p[2]
RatGe(p, q) == ~RatLt(p, q)
RatGt(p, q) == RatLt(q, p)

RECURSIVE SeqSum(_)
SeqSum(xs) == IF xs = <<>> THEN 0 ELSE Head(xs) + SeqSum(Tail(xs))

\* statistics.mean of a non-empty list of numbers
Mean(xs) == Rat(SeqSum(xs), Len(xs))

\* ---------------------------------------------------------------- state
VARIABLES
    \* Load Tester: main / run_load_test
    num_connections,   \* args.connections
    i,                 \* loop index of the launch loop = number of tasks created
    mpc,               \* position of main / run_load_test
    results,           \* self.results, the list gather returned (<<>> before)
    aggregate,         \* the LoadTestResults returned by run_load_test (NoAggregate before)
    report,            \* the verdict of the generated report (None before)
    files,             \* the files written so far
    exit_code,         \* None while running, then ExitSuccess or ExitFailure
    \* Load Tester: one simulate_bedrock_connection coroutine per session id
    pc,                \* position of each session
    connect_time, total_time, packets_sent, packets_received, errors, success,
    connect_attempts,  \* how many times the session called session.get
    spacing,           \* "none" before the session's first keep-alive request,
                       \* then whether the 100ms sleep followed its last one:
                       \* "slept" or "no sleep"
    task_result,       \* what each task ended with: NoResult while it runs, then a
                       \* ConnectionResult or ExceptionResult
    \* Comparator and Chart Generator (one run of one tool; the run's exit
    \* status and written files are exit_code and files above)
    tool,              \* which tool runs: "comparator", "charts" or "nightly"
    file_format,       \* what the result files hold: "object", the JSON object
                       \* {"benchmarks": [...]}, or "list", the bare JSON list
    current_data,      \* the measurement list of the current results file
    baseline_data,     \* the measurement list of the baseline file
    baseline_exists,   \* whether the baseline file exists
    update_baseline,   \* "--update-baseline" in sys.argv
    comparisons,       \* Comparator: the list compare_benchmarks returned
    bench_report,      \* Comparator: the report generate_report returned
    chart,             \* Chart Generator: rows of the comparison chart
    summary,           \* Chart Generator: what generate_summary_report ended with
    bpc,               \* position of the tool's main
    log,               \* what the tool printed: a list of <<kind, detail>>
    \* Nightly Report Generator
    report_data,       \* self.report_data, section by section
    html_report,       \* what generate_html_report returned (NoHtml before)
    audit_output       \* what `cargo audit` gave to collect_security_results (NoAudit before)

ltMainVars == <<num_connections, i, mpc, results, aggregate, report, files, exit_code>>
sessVars == <<pc, connect_time, total_time, packets_sent, packets_received, errors,
              success, connect_attempts, spacing, task_result>>
nightlyVars == <<report_data, html_report, audit_output>>
benchVars == <<tool, file_format, current_data, baseline_data, baseline_exists,
               update_baseline, comparisons, bench_report, chart, summary, bpc, log,
               nightlyVars>>
vars == <<ltMainVars, sessVars, benchVars>>

Sessions == 0..(MaxConn - 1)

\* the benchmark tools do not run in a Load Tester specification
NoReport == [kind |-> "None"]
NoSummary == [kind |-> "None"]
NoHtml == [kind |-> "None"]
NoAudit == [kind |-> "None"]

\* self.report_data after __init__: every section is an empty dict
EmptySection == [kind |-> "empty"]
EmptyReportData ==
    [test_results |-> EmptySection,
     performance_results |-> EmptySection,
     coverage_results |-> EmptySection,
     security_results |-> EmptySection,
     compatibility_results |-> EmptySection]

NightlyIdle ==
    /\ report_data = EmptyReportData
    /\ html_report = NoHtml
    /\ audit_output = NoAudit

BenchIdle ==
    /\ tool = "load_test"
    /\ file_format = "object"
    /\ log = <<>>
    /\ NightlyIdle
    /\ current_data = <<>>
    /\ baseline_data = <<>>
    /\ baseline_exists = FALSE
    /\ update_baseline = FALSE
    /\ comparisons = <<>>
    /\ bench_report = NoReport
    /\ chart = <<>>
    /\ summary = NoSummary
    /\ bpc = "idle"

\* no session exists (yet)
SessionsIdle ==
    /\ pc = [s \in Sessions |-> "absent"]
    /\ connect_time = [s \in Sessions |-> 0]
    /\ total_time = [s \in Sessions |-> 0]
    /\ packets_sent = [s \in Sessions |-> 0]
    /\ packets_received = [s \in Sessions |-> 0]
    /\ errors = [s \in Sessions |-> 0]
    /\ success = [s \in Sessions |-> FALSE]
    /\ connect_attempts = [s \in Sessions |-> 0]
    /\ spacing = [s \in Sessions |-> "none"]
    /\ task_result = [s \in Sessions |-> NoResult]

\* ======================================================================
\* Load Tester: simulate_bedrock_connection
\* ======================================================================

\* the event loop runs a task only while main is suspended in an await
MainSuspended == mpc \in {"stagger", "gather"}

\* session.get returned status 200
ConnectOk(s) ==
    /\ MainSuspended
    /\ pc[s] = "created"
    /\ \E t \in 1..MaxTime : connect_time' = [connect_time EXCEPT ![s] = t]
    /\ success' = [success EXCEPT ![s] = TRUE]
    /\ pc' = [pc EXCEPT ![s] = "loop"]
    /\ UNCHANGED <<total_time, packets_sent, packets_received, errors, task_result>>
    /\ connect_attempts' = [connect_attempts EXCEPT ![s] = @ + 1]
    /\ UNCHANGED spacing
    /\ UNCHANGED <<ltMainVars, benchVars>>

\* mutant: after a connect that returned another status the session goes
\* on to its keep-alive loop
ConnectNon200_EntersLoop(s) ==
    /\ MainSuspended
    /\ pc[s] = "created"
    /\ pc' = [pc EXCEPT ![s] = "loop"]
    /\ UNCHANGED <<connect_time, total_time, packets_sent, packets_received, errors,
                   success, task_result>>
    /\ connect_attempts' = [connect_attempts EXCEPT ![s] = @ + 1]
    /\ UNCHANGED spacing
    /\ UNCHANGED <<ltMainVars, benchVars>>

\* session.get returned another status: neither success nor errors changes
ConnectNon200(s) ==
    /\ MainSuspended
    /\ pc[s] = "created"
    /\ pc' = [pc EXCEPT ![s] = "closing"]
    /\ UNCHANGED <<connect_time, total_time, packets_sent, packets_received, errors,
                   success, task_result>>
    /\ connect_attempts' = [connect_attempts EXCEPT ![s] = @ + 1]
    /\ UNCHANGED spacing
    /\ UNCHANGED <<ltMainVars, benchVars>>

\* session.get raised: the inner handler counts one error
ConnectRaise(s) ==
    /\ MainSuspended
    /\ pc[s] = "created"
    /\ errors' = [errors EXCEPT ![s] = @ + 1]
    /\ pc' = [pc EXCEPT ![s] = "closing"]
    /\ UNCHANGED <<connect_time, total_time, packets_sent, packets_received,
                   success, task_result>>
    /\ connect_attempts' = [connect_attempts EXCEPT ![s] = @ + 1]
    /\ UNCHANGED spacing
    /\ UNCHANGED <<ltMainVars, benchVars>>

\* mutant: the loop goes on at exactly ErrorLimit errors
LoopCondErrors_OffByOne(s) == errors[s] <= ErrorLimit

\* the loop condition  time.time() < end_time and errors < 10 ; the clock is
\* not modelled, so the time half is free
LoopCondErrors(s) == errors[s] < ErrorLimit

\* one iteration whose session.post returned 200, then the 100ms sleep
KeepAliveOk(s) ==
    /\ MainSuspended
    /\ pc[s] = "loop"
    /\ LoopCondErrors(s)
    /\ packets_sent[s] < MaxPackets
    /\ packets_sent' = [packets_sent EXCEPT ![s] = @ + 1]
    /\ packets_received' = [packets_received EXCEPT ![s] = @ + 1]
    /\ UNCHANGED <<pc, connect_time, total_time, errors, success, task_result>>
    /\ spacing' = [spacing EXCEPT ![s] = "slept"]
    /\ UNCHANGED connect_attempts
    /\ UNCHANGED <<ltMainVars, benchVars>>

\* one iteration whose session.post returned another status, then the sleep
KeepAliveNon200(s) ==
    /\ MainSuspended
    /\ pc[s] = "loop"
    /\ LoopCondErrors(s)
    /\ errors' = [errors EXCEPT ![s] = @ + 1]
    /\ UNCHANGED <<pc, connect_time, total_time, packets_sent, packets_received,
                   success, task_result>>
    /\ spacing' = [spacing EXCEPT ![s] = "slept"]
    /\ UNCHANGED connect_attempts
    /\ UNCHANGED <<ltMainVars, benchVars>>

\* one iteration whose session.post raised: count it, break at the limit
KeepAliveRaise(s) ==
    /\ MainSuspended
    /\ pc[s] = "loop"
    /\ LoopCondErrors(s)
    /\ errors' = [errors EXCEPT ![s] = @ + 1]
    /\ pc' = [pc EXCEPT ![s] = IF errors[s] + 1 >= ErrorLimit THEN "closing" ELSE "loop"]
    /\ UNCHANGED <<connect_time, total_time, packets_sent, packets_received,
                   success, task_result>>
    /\ spacing' = [spacing EXCEPT ![s] = "no sleep"]
    /\ UNCHANGED connect_attempts
    /\ UNCHANGED <<ltMainVars, benchVars>>

\* the loop condition is false: the duration elapsed or the error limit is hit
LoopExit(s) ==
    /\ MainSuspended
    /\ pc[s] = "loop"
    /\ pc' = [pc EXCEPT ![s] = "closing"]
    /\ UNCHANGED <<connect_time, total_time, packets_sent, packets_received, errors,
                   success, task_result>>
    /\ UNCHANGED <<connect_attempts, spacing>>
    /\ UNCHANGED <<ltMainVars, benchVars>>

\* mutant: the result's success flag ignores the error count
ConnectionResult_NoErrorTest(s, tt, errs) ==
    [kind |-> "ConnectionResult",
     connection_id |-> s,
     connect_time |-> connect_time[s],
     total_time |-> tt,
     packets_sent |-> packets_sent[s],
     packets_received |-> packets_received[s],
     errors |-> errs,
     success |-> success[s]]

\* the ConnectionResult built by the return statement, errs being the value
\* of the local errors at that point
ConnectionResult(s, tt, errs) ==
    [kind |-> "ConnectionResult",
     connection_id |-> s,
     connect_time |-> connect_time[s],
     total_time |-> tt,
     packets_sent |-> packets_sent[s],
     packets_received |-> packets_received[s],
     errors |-> errs,
     success |-> success[s] /\ errs < ErrorLimit]

\* total_time = time.time() - start_time, not earlier than the connect
TotalTimes(s) == { t \in 1..MaxTime : t >= connect_time[s] }

\* the client session closes cleanly and the coroutine returns its result
SessionReturn(s) ==
    /\ MainSuspended
    /\ pc[s] = "closing"
    /\ \E tt \in TotalTimes(s) :
          /\ total_time' = [total_time EXCEPT ![s] = tt]
          /\ task_result' = [task_result EXCEPT ![s] = ConnectionResult(s, tt, errors[s])]
    /\ pc' = [pc EXCEPT ![s] = "returned"]
    /\ UNCHANGED <<connect_time, packets_sent, packets_received, errors, success>>
    /\ UNCHANGED <<connect_attempts, spacing>>
    /\ UNCHANGED <<ltMainVars, benchVars>>

\* an exception reaches the outer handler after the connect attempt (the
\* print of the connect handler or the closing of the client session
\* raises): one more error, then the coroutine returns its result
OuterRaise(s) ==
    /\ MainSuspended
    /\ pc[s] = "closing"
    /\ errors' = [errors EXCEPT ![s] = @ + 1]
    /\ \E tt \in TotalTimes(s) :
          /\ total_time' = [total_time EXCEPT ![s] = tt]
          /\ task_result' = [task_result EXCEPT ![s] =
                 ConnectionResult(s, tt, errors[s] + 1)]
    /\ pc' = [pc EXCEPT ![s] = "returned"]
    /\ UNCHANGED <<connect_time, packets_sent, packets_received, success>>
    /\ UNCHANGED <<connect_attempts, spacing>>
    /\ UNCHANGED <<ltMainVars, benchVars>>

\* the outer handler itself raises (its print fails, e.g. on a closed
\* stdout): the exception leaves the coroutine and ends the task
SessionEscape(s) ==
    /\ MainSuspended
    /\ pc[s] = "closing"
    /\ errors' = [errors EXCEPT ![s] = @ + 1]
    /\ task_result' = [task_result EXCEPT ![s] = ExceptionResult]
    /\ pc' = [pc EXCEPT ![s] = "raised"]
    /\ UNCHANGED <<connect_time, total_time, packets_sent, packets_received, success>>
    /\ UNCHANGED <<connect_attempts, spacing>>
    /\ UNCHANGED <<ltMainVars, benchVars>>

SessionStep(s) ==
    \/ ConnectOk(s)
    \/ ConnectNon200(s)
    \/ ConnectRaise(s)
    \/ KeepAliveOk(s)
    \/ KeepAliveNon200(s)
    \/ KeepAliveRaise(s)
    \/ LoopExit(s)
    \/ SessionReturn(s)
    \/ OuterRaise(s)
    \/ SessionEscape(s)

\* ======================================================================
\* Load Tester: run_load_test
\* ======================================================================

\* one pass of the launch loop: create task i, then the staggering test
Launch ==
    /\ mpc = "launch"
    /\ i < num_connections
    /\ pc' = [pc EXCEPT ![i] = "created"]
    /\ i' = i + 1
    /\ mpc' = IF i % StaggerEvery = 0 /\ i > 0 THEN "stagger" ELSE "launch"
    /\ UNCHANGED <<num_connections, results, aggregate, report, files, exit_code>>
    /\ UNCHANGED <<connect_time, total_time, packets_sent, packets_received, errors,
                   success, connect_attempts, spacing, task_result>>
    /\ UNCHANGED benchVars

\* the staggering sleep is over: the loop goes on, or ends when task i - 1
\* was the last one.  The pause is first taken after task StaggerEvery is
\* created, so a run of at most MaxConn <= StaggerEvery sessions never takes
\* it and Next leaves this action out; SpecLaunch has it.
StaggerWake ==
    /\ mpc = "stagger"
    /\ mpc' = "launch"
    /\ UNCHANGED <<num_connections, i, results, aggregate, report, files, exit_code>>
    /\ UNCHANGED <<sessVars, benchVars>>

\* the launch loop is over: main awaits asyncio.gather
AwaitGather ==
    /\ mpc = "launch"
    /\ i = num_connections
    /\ mpc' = "gather"
    /\ UNCHANGED <<num_connections, i, results, aggregate, report, files, exit_code>>
    /\ UNCHANGED <<sessVars, benchVars>>

Launched == 0..(num_connections - 1)

AllTasksDone == \A s \in Launched : pc[s] \in {"returned", "raised"}

\* what gather(*tasks, return_exceptions=True) returns, in task order
GatherResults == [k \in 1..num_connections |-> task_result[k - 1]]

IsConnectionResult(r) == r.kind = "ConnectionResult"
IsSuccess(r) == r.success
IsFailed(r) == ~r.success

\* the lists [r.connect_time for r in rs] and the like
ConnectTimesOf(rs) == [k \in 1..Len(rs) |-> rs[k].connect_time]
TotalTimesOf(rs) == [k \in 1..Len(rs) |-> rs[k].total_time]
PacketsSentOf(rs) == [k \in 1..Len(rs) |-> rs[k].packets_sent]
ErrorsOf(rs) == [k \in 1..Len(rs) |-> rs[k].errors]

ValidResults(rs) == SelectSeq(rs, IsConnectionResult)
Successful(rs) == SelectSeq(ValidResults(rs), IsSuccess)
Failed(rs) == SelectSeq(ValidResults(rs), IsFailed)

\* mutant: the mean is taken over every valid result
AvgConnectTime_AllValid(rs) ==
    IF ValidResults(rs) # <<>> THEN Mean(ConnectTimesOf(ValidResults(rs)))
    ELSE Rat(0, 1)

AvgConnectTime(rs) ==
    IF Successful(rs) # <<>> THEN Mean(ConnectTimesOf(Successful(rs)))
    ELSE Rat(0, 1)

AvgResponseTime(rs) ==
    IF Successful(rs) # <<>> THEN Mean(TotalTimesOf(Successful(rs)))
    ELSE Rat(0, 1)

\* mutant: total_connections counts the exceptions gather returned as well
LoadTestResults_CountAll(rs, total_duration) ==
    [kind |-> "LoadTestResults",
     total_connections |-> Len(rs),
     successful_connections |-> Len(Successful(rs)),
     failed_connections |-> Len(Failed(rs)),
     total_duration |-> total_duration,
     avg_connect_time |-> AvgConnectTime(rs),
     avg_response_time |-> AvgResponseTime(rs),
     packets_per_second |->
         Rat(SeqSum(PacketsSentOf(ValidResults(rs))), total_duration),
     errors_per_second |->
         Rat(SeqSum(ErrorsOf(ValidResults(rs))), total_duration)]

\* the LoadTestResults built from the gathered list; total_duration > 0
LoadTestResults(rs, total_duration) ==
    [kind |-> "LoadTestResults",
     total_connections |-> Len(ValidResults(rs)),
     successful_connections |-> Len(Successful(rs)),
     failed_connections |-> Len(Failed(rs)),
     total_duration |-> total_duration,
     avg_connect_time |-> AvgConnectTime(rs),
     avg_response_time |-> AvgResponseTime(rs),
     packets_per_second |->
         Rat(SeqSum(PacketsSentOf(ValidResults(rs))), total_duration),
     errors_per_second |->
         Rat(SeqSum(ErrorsOf(ValidResults(rs))), total_duration)]

\* mutant: the join returns when the first task has ended
Gather_FirstCompleted ==
    /\ mpc = "gather"
    /\ \E s \in Launched : pc[s] \in {"returned", "raised"}
    /\ results' = GatherResults
    /\ \E d \in 1..MaxTime : aggregate' = LoadTestResults(GatherResults, d)
    /\ mpc' = "aggregated"
    /\ UNCHANGED <<num_connections, i, report, files, exit_code>>
    /\ UNCHANGED <<sessVars, benchVars>>

\* mutant: gather without return_exceptions, so the first exception of a task
\* is raised in run_load_test and reaches main's handler
Gather_Propagate ==
    /\ mpc = "gather"
    /\ \/ /\ \E s \in Launched : pc[s] = "raised"
          /\ mpc' = "failed"
          /\ exit_code' = ExitFailure
          /\ UNCHANGED <<results, aggregate>>
       \/ /\ AllTasksDone
          /\ \A s \in Launched : pc[s] = "returned"
          /\ results' = GatherResults
          /\ \E d \in 1..MaxTime : aggregate' = LoadTestResults(GatherResults, d)
          /\ mpc' = "aggregated"
          /\ UNCHANGED exit_code
    /\ UNCHANGED <<num_connections, i, report, files>>
    /\ UNCHANGED <<sessVars, benchVars>>

\* gather completes once every task has ended; the statistics follow without
\* another await
Gather ==
    /\ mpc = "gather"
    /\ AllTasksDone
    /\ results' = GatherResults
    /\ \E d \in 1..MaxTime : aggregate' = LoadTestResults(GatherResults, d)
    /\ mpc' = "aggregated"
    /\ UNCHANGED <<num_connections, i, report, files, exit_code>>
    /\ UNCHANGED <<sessVars, benchVars>>

\* ======================================================================
\* Load Tester: generate_report and main
\* ======================================================================

ZeroDivisionError == "ZeroDivisionError"

\* successful_connections / total_connections raises on a zero total
RateRaises(r) == r.total_connections = 0

\* successful_connections / total_connections, for a non-zero total
SuccessRate(r) == Rat(r.successful_connections, r.total_connections)

\* mutant: the PASS threshold is strict
Assessment_StrictPass(r) ==
    IF RateRaises(r) THEN ZeroDivisionError
    ELSE IF RatGt(SuccessRate(r), Rat(95, 100)) THEN "PASS"
    ELSE IF RatGe(SuccessRate(r), Rat(80, 100)) THEN "WARNING"
    ELSE "FAIL"

\* the performance assessment generate_report appends
Assessment(r) ==
    IF RateRaises(r) THEN ZeroDivisionError
    ELSE IF RatGe(SuccessRate(r), Rat(95, 100)) THEN "PASS"
    ELSE IF RatGe(SuccessRate(r), Rat(80, 100)) THEN "WARNING"
    ELSE "FAIL"

\* tester.generate_report(results) and print(report); an exception goes to
\* main's handler, which exits with status 1
GenerateReport ==
    /\ mpc = "aggregated"
    /\ IF Assessment(aggregate) = ZeroDivisionError
       THEN /\ mpc' = "failed"
            /\ exit_code' = ExitFailure
            /\ UNCHANGED report
       ELSE /\ report' = Assessment(aggregate)
            /\ mpc' = "reported"
            /\ UNCHANGED exit_code
    /\ UNCHANGED <<num_connections, i, results, aggregate, files>>
    /\ UNCHANGED <<sessVars, benchVars>>

\* json.dump(asdict(results)) to args.output
WriteResultsJson ==
    /\ mpc = "reported"
    /\ files' = files \cup {"load_test_results.json"}
    /\ mpc' = "json_written"
    /\ UNCHANGED <<num_connections, i, results, aggregate, report, exit_code>>
    /\ UNCHANGED <<sessVars, benchVars>>

\* f.write(report) to load_test_report.md
WriteReportMd ==
    /\ mpc = "json_written"
    /\ files' = files \cup {"load_test_report.md"}
    /\ mpc' = "md_written"
    /\ UNCHANGED <<num_connections, i, results, aggregate, report, exit_code>>
    /\ UNCHANGED <<sessVars, benchVars>>

\* mutant: a rate of exactly 80% fails the run
ExitFails_Inclusive(r) == ~RatGt(SuccessRate(r), Rat(80, 100))

\* success_rate < 0.80 decides the exit status
ExitFails(r) == RatLt(SuccessRate(r), Rat(80, 100))

DecideExit ==
    /\ mpc = "md_written"
    /\ exit_code' = IF ExitFails(aggregate) THEN ExitFailure ELSE ExitSuccess
    /\ mpc' = "exited"
    /\ UNCHANGED <<num_connections, i, results, aggregate, report, files>>
    /\ UNCHANGED <<sessVars, benchVars>>

MainTail ==
    \/ GenerateReport
    \/ WriteResultsJson
    \/ WriteReportMd
    \/ DecideExit

\* ======================================================================
\* Spec: a whole Load Tester run
\* ======================================================================

Init ==
    /\ num_connections \in 0..MaxConn
    /\ i = 0
    /\ mpc = "launch"
    /\ results = <<>>
    /\ aggregate = NoAggregate
    /\ report = None
    /\ files = {}
    /\ exit_code = None
    /\ SessionsIdle
    /\ BenchIdle

Next ==
    \/ Launch
    \/ AwaitGather
    \/ \E s \in Sessions : SessionStep(s)
    \/ Gather
    \/ MainTail

Spec == Init /\ [][Next]_vars

\* ======================================================================
\* SpecReport: the tail of main from a drawn aggregate
\* ======================================================================

\* an aggregate with the given counts; the fields the report's verdict and
\* the exit status do not read are fixed
DrawnAggregate(total, successful) ==
    [kind |-> "LoadTestResults",
     total_connections |-> total,
     successful_connections |-> successful,
     failed_connections |-> total - successful,
     total_duration |-> 1,
     avg_connect_time |-> IF successful > 0 THEN Rat(1, 1) ELSE Rat(0, 1),
     avg_response_time |-> IF successful > 0 THEN Rat(1, 1) ELSE Rat(0, 1),
     packets_per_second |-> Rat(0, 1),
     errors_per_second |-> Rat(0, 1)]

InitReport ==
    /\ \E total \in 0..MaxTotal : \E successful \in 0..total :
          /\ num_connections = total
          /\ i = total
          /\ aggregate = DrawnAggregate(total, successful)
    /\ mpc = "aggregated"
    /\ results = <<>>
    /\ report = None
    /\ files = {}
    /\ exit_code = None
    /\ SessionsIdle
    /\ BenchIdle

NextReport == MainTail

SpecReport == InitReport /\ [][NextReport]_vars

\* ======================================================================
\* Benchmark tools: measurements, dicts and floats
\* ======================================================================

\* measurement names: one of the Chart Generator's key metrics and the name
\* of the spec's end-to-end scenario
Names == {"server_startup_avg", "x"}

\* baseline values: 0 and, in both signs, 20, the smallest baseline of which
\* 5% is an integer
BaselineValues == {0, 20, -20}

\* current values: 0 and, in both signs, the integers around 20, so that the
\* change against a baseline of 20 is below, at and above -5%, 0 and +5%
CurrentValues == {0} \cup { v : v \in (20 - MaxDelta)..(20 + MaxDelta) }
                     \cup { -v : v \in (20 - MaxDelta)..(20 + MaxDelta) }

\* the entries a current results file can list
CurrentMeasurements ==
    [name : Names, value : CurrentValues, unit : {"ms"}, lower_is_better : BOOLEAN]

\* the entries a baseline file can list; no tool reads a baseline entry's
\* lower_is_better
BaselineMeasurements ==
    [name : Names, value : BaselineValues, unit : {"ms"}, lower_is_better : {TRUE}]

SeqsUpTo(S, n) == UNION { [1..k -> S] : k \in 0..n }

\* a float: +inf, or an exact rational
PosInf == [inf |-> TRUE, q |-> <<0, 1>>]
Fin(n, d) == [inf |-> FALSE, q |-> Rat(n, d)]
Times100(x) == IF x.inf THEN PosInf ELSE Fin(x.q[1] * 100, x.q[2])
FGt(x, t) == x.inf \/ RatGt(x.q, t)
FLt(x, t) == ~x.inf /\ RatLt(x.q, t)
FLe(x, y) == y.inf \/ (~x.inf /\ ~RatLt(y.q, x.q))

\* a Python dict keyed by measurement name: its values in insertion order of
\* their keys
DictHas(d, name) == \E k \in 1..Len(d) : d[k].name = name
DictGet(d, name) == d[CHOOSE k \in 1..Len(d) : d[k].name = name]
DictPut(d, r) ==
    IF DictHas(d, r.name)
    THEN [k \in 1..Len(d) |-> IF d[k].name = r.name THEN r ELSE d[k]]
    ELSE Append(d, r)

RECURSIVE LoadInto(_, _)
LoadInto(d, data) ==
    IF data = <<>> THEN d ELSE LoadInto(DictPut(d, Head(data)), Tail(data))

\* data.get('benchmarks', []) raises AttributeError when the file holds a
\* bare list instead of an object
GetRaises(format) == format = "list"

\* what the Comparator printed for one event; the progress lines are not
\* modelled
Printed(kind, detail) == <<kind, detail>>

\* mutant: the listed benchmarks are kept as a list, duplicates included
load_current_NoDict(data) == data

\* load_current: every listed benchmark is stored under its name
load_current(data) == LoadInto(<<>>, data)

\* load_baseline: {} when the file is missing
load_baseline(exists, data) == IF exists THEN LoadInto(<<>>, data) ELSE <<>>

\* ======================================================================
\* Comparator: compare_benchmarks, generate_report, main
\* ======================================================================

regression_threshold == Rat(5, 100)
improvement_threshold == Rat(5, 100)
Minus(t) == <<-t[1], t[2]>>

\* the relative change, with the zero-baseline convention
ChangeOf(current_value, baseline_value) ==
    IF baseline_value = 0
    THEN IF current_value > 0 THEN PosInf ELSE Fin(0, 1)
    ELSE Fin(current_value - baseline_value, baseline_value)

\* mutant: the thresholds are inclusive
ComparisonResult_Inclusive(current_result, baseline_result) ==
    LET change_percent == ChangeOf(current_result.value, baseline_result.value)
    IN  [name |-> current_result.name,
         current |-> current_result.value,
         baseline |-> baseline_result.value,
         change_percent |-> Times100(change_percent),
         regression |->
             IF current_result.lower_is_better
             THEN ~FLt(change_percent, regression_threshold)
             ELSE ~FGt(change_percent, Minus(regression_threshold)),
         improvement |->
             IF current_result.lower_is_better
             THEN ~FGt(change_percent, Minus(improvement_threshold))
             ELSE ~FLt(change_percent, improvement_threshold)]

\* the ComparisonResult of one measurement that has a baseline
ComparisonResult(current_result, baseline_result) ==
    LET change_percent == ChangeOf(current_result.value, baseline_result.value)
    IN  [name |-> current_result.name,
         current |-> current_result.value,
         baseline |-> baseline_result.value,
         change_percent |-> Times100(change_percent),
         regression |->
             IF current_result.lower_is_better
             THEN FGt(change_percent, regression_threshold)
             ELSE FLt(change_percent, Minus(regression_threshold)),
         improvement |->
             IF current_result.lower_is_better
             THEN FLt(change_percent, Minus(improvement_threshold))
             ELSE FGt(change_percent, improvement_threshold)]

\* compare_benchmarks: one comparison per current measurement that has a
\* baseline, in the order of current; the others are skipped with a warning
RECURSIVE compare_benchmarks(_, _)
compare_benchmarks(current, baseline) ==
    IF current = <<>> THEN <<>>
    ELSE IF ~DictHas(baseline, Head(current).name)
         THEN compare_benchmarks(Tail(current), baseline)
         ELSE <<ComparisonResult(Head(current), DictGet(baseline, Head(current).name))>>
                  \o compare_benchmarks(Tail(current), baseline)

\* the warnings compare_benchmarks prints: one per skipped current name
RECURSIVE compare_warnings(_, _)
compare_warnings(current, baseline) ==
    IF current = <<>> THEN <<>>
    ELSE IF ~DictHas(baseline, Head(current).name)
         THEN <<Printed("warning: no baseline for", Head(current).name)>>
                  \o compare_warnings(Tail(current), baseline)
         ELSE compare_warnings(Tail(current), baseline)

IsRegression(c) == c.regression
IsImprovement(c) == c.improvement
IsStable(c) == ~c.regression /\ ~c.improvement

\* mutant: the Stable section lists the improvements as well
generate_report_StableAndImproved(cs) ==
    [kind |-> "report",
     total |-> Len(cs),
     regressions |-> SelectSeq(cs, IsRegression),
     improvements |-> SelectSeq(cs, IsImprovement),
     stable |-> SelectSeq(cs, IsStable) \o SelectSeq(cs, IsImprovement)]

\* generate_report: the summary counts and the three sections
generate_report(cs) ==
    [kind |-> "report",
     total |-> Len(cs),
     regressions |-> SelectSeq(cs, IsRegression),
     improvements |-> SelectSeq(cs, IsImprovement),
     stable |-> SelectSeq(cs, IsStable)]

\* what load_baseline prints when the baseline file is missing
BaselineNotice(exists) ==
    IF exists THEN <<>> ELSE <<Printed("warning: baseline file not found", "")>>

\* mutant: without a baseline main returns without saving one
ComparatorCompare_NoSave ==
    /\ tool = "comparator"
    /\ bpc = "start"
    /\ LET current == load_current(current_data)
           baseline == load_baseline(baseline_exists, baseline_data)
       IN  IF GetRaises(file_format)
           THEN /\ log' = log \o <<Printed("error comparing benchmarks", "AttributeError")>>
                /\ exit_code' = ExitFailure
                /\ bpc' = "failed"
                /\ UNCHANGED <<baseline_data, baseline_exists, comparisons, bench_report>>
           ELSE IF baseline = <<>>
           THEN /\ UNCHANGED <<baseline_data, baseline_exists>>
                /\ log' = log \o BaselineNotice(baseline_exists)
                               \o <<Printed("no baseline found, saving current as baseline", "")>>
                /\ exit_code' = ExitSuccess
                /\ bpc' = "done"
                /\ UNCHANGED <<comparisons, bench_report>>
           ELSE /\ comparisons' = compare_benchmarks(current, baseline)
                /\ bench_report' = generate_report(compare_benchmarks(current, baseline))
                /\ log' = log \o compare_warnings(current, baseline)
                /\ bpc' = "compared"
                /\ UNCHANGED <<baseline_data, baseline_exists, exit_code>>
    /\ UNCHANGED <<tool, file_format, current_data, update_baseline, chart, summary>>
    /\ UNCHANGED <<num_connections, i, mpc, results, aggregate, report, files>>
    /\ UNCHANGED <<sessVars, nightlyVars>>

\* main up to the report: load both files (a file that is not an object
\* makes the load raise, and main's handler prints the error and exits 1);
\* without a baseline save the current results as the baseline and return;
\* else compare, build and print the report
ComparatorCompare ==
    /\ tool = "comparator"
    /\ bpc = "start"
    /\ LET current == load_current(current_data)
           baseline == load_baseline(baseline_exists, baseline_data)
       IN  IF GetRaises(file_format)
           THEN /\ log' = log \o <<Printed("error comparing benchmarks", "AttributeError")>>
                /\ exit_code' = ExitFailure
                /\ bpc' = "failed"
                /\ UNCHANGED <<baseline_data, baseline_exists, comparisons, bench_report>>
           ELSE IF baseline = <<>>
           THEN /\ baseline_data' = current_data
                /\ baseline_exists' = TRUE
                /\ log' = log \o BaselineNotice(baseline_exists)
                               \o <<Printed("no baseline found, saving current as baseline", "")>>
                /\ exit_code' = ExitSuccess
                /\ bpc' = "done"
                /\ UNCHANGED <<comparisons, bench_report>>
           ELSE /\ comparisons' = compare_benchmarks(current, baseline)
                /\ bench_report' = generate_report(compare_benchmarks(current, baseline))
                /\ log' = log \o compare_warnings(current, baseline)
                /\ bpc' = "compared"
                /\ UNCHANGED <<baseline_data, baseline_exists, exit_code>>
    /\ UNCHANGED <<tool, file_format, current_data, update_baseline, chart, summary>>
    /\ UNCHANGED <<num_connections, i, mpc, results, aggregate, report, files>>
    /\ UNCHANGED <<sessVars, nightlyVars>>

\* the report is written to benchmark_report.md
ComparatorWriteReport ==
    /\ tool = "comparator"
    /\ bpc = "compared"
    /\ files' = files \cup {"benchmark_report.md"}
    /\ bpc' = "reported"
    /\ UNCHANGED <<tool, file_format, current_data, baseline_data, baseline_exists,
                   update_baseline, comparisons, bench_report, chart, summary, log>>
    /\ UNCHANGED <<num_connections, i, mpc, results, aggregate, report, exit_code>>
    /\ UNCHANGED <<sessVars, nightlyVars>>

\* mutant: regressions fail the run even when the baseline is promoted
ComparatorFinish_AlwaysFail ==
    /\ tool = "comparator"
    /\ bpc = "reported"
    /\ IF SelectSeq(comparisons, IsRegression) # <<>>
       THEN /\ exit_code' = ExitFailure
            /\ log' = log \o <<Printed("found regressions", "")>>
            /\ UNCHANGED <<baseline_data, baseline_exists>>
       ELSE /\ exit_code' = ExitSuccess
            /\ baseline_data' = IF update_baseline THEN current_data ELSE baseline_data
            /\ UNCHANGED <<baseline_exists, log>>
    /\ bpc' = "done"
    /\ UNCHANGED <<tool, file_format, current_data, update_baseline, comparisons,
                   bench_report, chart, summary>>
    /\ UNCHANGED <<num_connections, i, mpc, results, aggregate, report, files>>
    /\ UNCHANGED <<sessVars, nightlyVars>>

\* the regression check, the baseline promotion and the end of main
ComparatorFinish ==
    /\ tool = "comparator"
    /\ bpc = "reported"
    /\ log' = IF SelectSeq(comparisons, IsRegression) # <<>>
              THEN log \o <<Printed("found regressions", "")>>
              ELSE log
    /\ IF SelectSeq(comparisons, IsRegression) # <<>> /\ ~update_baseline
       THEN /\ exit_code' = ExitFailure
            /\ UNCHANGED <<baseline_data, baseline_exists>>
       ELSE /\ exit_code' = ExitSuccess
            /\ baseline_data' = IF update_baseline THEN current_data ELSE baseline_data
            /\ UNCHANGED baseline_exists
    /\ bpc' = "done"
    /\ UNCHANGED <<tool, file_format, current_data, update_baseline, comparisons,
                   bench_report, chart, summary>>
    /\ UNCHANGED <<num_connections, i, mpc, results, aggregate, report, files>>
    /\ UNCHANGED <<sessVars, nightlyVars>>

\* ======================================================================
\* Chart Generator: comparison chart, summary report, main
\* ======================================================================

\* load_benchmark_results returns what json.load gives: the list the file
\* holds, or, for a file that holds the object {"benchmarks": [...]}, a dict,
\* which is not empty and whose iteration yields its one key
load_benchmark_results(format, data) ==
    IF format = "list"
    THEN [kind |-> "list", items |-> data]
    ELSE [kind |-> "dict", items |-> <<"benchmarks">>]

\* item['name'] raises TypeError when the item is a key of a dict, a string
ItemRaises(loaded) == loaded.kind = "dict" /\ loaded.items # <<>>

\* the baseline list main passes on: [] when the file is missing
ChartBaseline == IF baseline_exists THEN baseline_data ELSE <<>>

\* a dict comprehension over a list: the last item of a name wins
ListHas(data, name) == \E k \in 1..Len(data) : data[k].name = name
LastOf(data, name) ==
    data[CHOOSE k \in 1..Len(data) :
            /\ data[k].name = name
            /\ \A j \in (k + 1)..Len(data) : data[j].name # name]
FirstOf(data, name) ==
    data[CHOOSE k \in 1..Len(data) :
            /\ data[k].name = name
            /\ \A j \in 1..(k - 1) : data[j].name # name]

ChartThreshold == 5

\* change_percent of the comparison chart
ChartChangePercent(current_value, baseline_value) ==
    IF baseline_value # 0
    THEN Times100(Fin(current_value - baseline_value, baseline_value))
    ELSE IF current_value = 0 THEN Fin(0, 1) ELSE PosInf

\* the bar colour of a row
ChartColor(lower_is_better, change_percent) ==
    IF lower_is_better
    THEN IF FLt(change_percent, Rat(-ChartThreshold, 1)) THEN "green"
         ELSE IF FGt(change_percent, Rat(ChartThreshold, 1)) THEN "red"
         ELSE "orange"
    ELSE IF FGt(change_percent, Rat(ChartThreshold, 1)) THEN "green"
         ELSE IF FLt(change_percent, Rat(-ChartThreshold, 1)) THEN "red"
         ELSE "orange"

ChartRow(cur, baseline_value) ==
    LET change_percent == ChartChangePercent(cur.value, baseline_value)
    IN  [benchmark |-> cur.name,
         current |-> cur.value,
         baseline |-> baseline_value,
         change_percent |-> change_percent,
         unit |-> cur.unit,
         lower_is_better |-> cur.lower_is_better,
         color |-> ChartColor(cur.lower_is_better, change_percent)]

\* comparison_data: one row per current item whose name has a baseline value
RECURSIVE ComparisonData(_, _)
ComparisonData(data, baseline) ==
    IF data = <<>> THEN <<>>
    ELSE IF ~ListHas(baseline, Head(data).name)
         THEN ComparisonData(Tail(data), baseline)
         ELSE <<ChartRow(Head(data), LastOf(baseline, Head(data).name).value)>>
                  \o ComparisonData(Tail(data), baseline)

\* df.sort_values('change_percent'): ascending, +inf last
RECURSIVE InsertRow(_, _)
InsertRow(rows, r) ==
    IF rows = <<>> THEN <<r>>
    ELSE IF FLe(Head(rows).change_percent, r.change_percent)
         THEN <<Head(rows)>> \o InsertRow(Tail(rows), r)
         ELSE <<r>> \o rows

RECURSIVE SortRows(_)
SortRows(rows) ==
    IF rows = <<>> THEN <<>>
    ELSE InsertRow(SortRows(SubSeq(rows, 1, Len(rows) - 1)), rows[Len(rows)])

\* the rows create_performance_comparison_chart draws, coloured
create_performance_comparison_chart(data, baseline) ==
    SortRows(ComparisonData(data, baseline))

key_metrics ==
    <<"server_startup_avg", "packet_processing_ecs_overhead", "memory_pool_efficiency",
      "tick_rate_lightweight_impact", "sustained_tick_rate_with_plugins">>

SummaryThreshold == Rat(5, 100)

\* the bucket the summary statistics count a current item in; "none" when
\* the item has no baseline or a baseline value of 0
SummaryBucket(cur, baseline) ==
    IF ~ListHas(baseline, cur.name) THEN "none"
    ELSE LET b == LastOf(baseline, cur.name).value
         IN  IF b = 0 THEN "none"
             ELSE LET change == Fin(cur.value - b, b)
                  IN  IF cur.lower_is_better
                      THEN IF FGt(change, SummaryThreshold) THEN "regression"
                           ELSE IF FLt(change, Minus(SummaryThreshold)) THEN "improvement"
                           ELSE "stable"
                      ELSE IF FLt(change, Minus(SummaryThreshold)) THEN "regression"
                           ELSE IF FGt(change, SummaryThreshold) THEN "improvement"
                           ELSE "stable"

CountBucket(data, baseline, bucket) ==
    Cardinality({ k \in 1..Len(data) : SummaryBucket(data[k], baseline) = bucket })

\* the key metrics that are listed with a change against their baseline
KeyMetricsWithBaseline(data, baseline) ==
    { k \in 1..Len(key_metrics) :
        ListHas(data, key_metrics[k]) /\ ListHas(baseline, key_metrics[k]) }

\* the key-metrics section divides by the baseline value without a test
KeyMetricsRaise(data, baseline) ==
    \E k \in KeyMetricsWithBaseline(data, baseline) :
        LastOf(baseline, key_metrics[k]).value = 0

KeyMetricLine(data, baseline, name) ==
    LET current_metric == FirstOf(data, name)
    IN  IF ListHas(baseline, name)
        THEN [name |-> name, value |-> current_metric.value, has_change |-> TRUE,
              change |-> Times100(Fin(current_metric.value - LastOf(baseline, name).value,
                                      LastOf(baseline, name).value))]
        ELSE [name |-> name, value |-> current_metric.value, has_change |-> FALSE,
              change |-> Fin(0, 1)]

RECURSIVE KeyMetricLines(_, _, _)
KeyMetricLines(data, baseline, names) ==
    IF names = <<>> THEN <<>>
    ELSE IF ~ListHas(data, Head(names))
         THEN KeyMetricLines(data, baseline, Tail(names))
         ELSE <<KeyMetricLine(data, baseline, Head(names))>>
                  \o KeyMetricLines(data, baseline, Tail(names))

\* generate_summary_report: the report, or the exception it ends with
generate_summary_report(data, baseline) ==
    IF KeyMetricsRaise(data, baseline) THEN [kind |-> ZeroDivisionError]
    ELSE [kind |-> "summary",
          total |-> Len(data),
          has_changes |-> baseline # <<>>,
          regressions |-> CountBucket(data, baseline, "regression"),
          improvements |-> CountBucket(data, baseline, "improvement"),
          stable |-> CountBucket(data, baseline, "stable"),
          key_lines |-> KeyMetricLines(data, baseline, key_metrics)]

\* main up to the comparison chart: exit 1 without current data; the chart is
\* drawn only when there is baseline data.  The rows and their colours are
\* modelled, the drawing by matplotlib is not; the category, trend and memory
\* charts that follow read current_data only and are not modelled.
ChartCompare ==
    /\ tool = "charts"
    /\ bpc = "start"
    /\ LET loaded == load_benchmark_results(file_format, current_data)
       IN  IF loaded.items = <<>>
           THEN /\ exit_code' = ExitFailure
                /\ log' = log \o <<Printed("no current benchmark data found", "")>>
                /\ bpc' = "failed"
                /\ UNCHANGED chart
           ELSE IF ItemRaises(loaded)
           THEN /\ exit_code' = ExitFailure
                /\ log' = log \o <<Printed("error generating charts", "TypeError")>>
                /\ bpc' = "failed"
                /\ UNCHANGED chart
           ELSE /\ chart' = IF ChartBaseline # <<>>
                            THEN create_performance_comparison_chart(current_data,
                                                                     ChartBaseline)
                            ELSE chart
                /\ bpc' = "charted"
                /\ UNCHANGED <<exit_code, log>>
    /\ UNCHANGED <<tool, file_format, current_data, baseline_data, baseline_exists,
                   update_baseline, comparisons, bench_report, summary>>
    /\ UNCHANGED <<num_connections, i, mpc, results, aggregate, report, files>>
    /\ UNCHANGED <<sessVars, nightlyVars>>

\* the summary report; an exception goes to main's handler, which exits 1
ChartSummary ==
    /\ tool = "charts"
    /\ bpc = "charted"
    /\ summary' = generate_summary_report(current_data, ChartBaseline)
    /\ IF generate_summary_report(current_data, ChartBaseline).kind = ZeroDivisionError
       THEN /\ exit_code' = ExitFailure
            /\ log' = log \o <<Printed("error generating charts", ZeroDivisionError)>>
            /\ bpc' = "failed"
            /\ UNCHANGED files
       ELSE /\ exit_code' = ExitSuccess
            /\ bpc' = "done"
            /\ files' = files \cup {"summary_report.md"}
            /\ UNCHANGED log
    /\ UNCHANGED <<tool, file_format, current_data, baseline_data, baseline_exists,
                   update_baseline, comparisons, bench_report, chart>>
    /\ UNCHANGED <<num_connections, i, mpc, results, aggregate, report>>
    /\ UNCHANGED <<sessVars, nightlyVars>>

\* ======================================================================
\* SpecBench: one run of the Comparator or of the Chart Generator
\* ======================================================================

InitBench ==
    /\ tool \in {"comparator", "charts"}
    /\ file_format \in {"object", "list"}
    /\ log = <<>>
    /\ NightlyIdle
    /\ current_data \in SeqsUpTo(CurrentMeasurements, MaxBench)
    /\ baseline_exists \in BOOLEAN
    /\ baseline_data \in
          IF baseline_exists THEN SeqsUpTo(BaselineMeasurements, MaxBench) ELSE {<<>>}
    /\ update_baseline \in IF tool = "comparator" THEN BOOLEAN ELSE {FALSE}
    /\ comparisons = <<>>
    /\ bench_report = NoReport
    /\ chart = <<>>
    /\ summary = NoSummary
    /\ bpc = "start"
    /\ num_connections = 0
    /\ i = 0
    /\ mpc = "idle"
    /\ results = <<>>
    /\ aggregate = NoAggregate
    /\ report = None
    /\ files = {}
    /\ exit_code = None
    /\ SessionsIdle

NextBench ==
    \/ ComparatorCompare
    \/ ComparatorWriteReport
    \/ ComparatorFinish
    \/ ChartCompare
    \/ ChartSummary

SpecBench == InitBench /\ [][NextBench]_vars

\* ======================================================================
\* SpecLaunch: the launch loop of run_load_test with up to MaxLaunch tasks
\* ======================================================================

LaunchIds == 0..(MaxLaunch - 1)

\* the tasks the loop creates are left where create_task puts them: their
\* steps touch none of the loop's variables
InitLaunch ==
    /\ num_connections \in 0..MaxLaunch
    /\ i = 0
    /\ mpc = "launch"
    /\ results = <<>>
    /\ aggregate = NoAggregate
    /\ report = None
    /\ files = {}
    /\ exit_code = None
    /\ pc = [s \in LaunchIds |-> "absent"]
    /\ connect_time = [s \in LaunchIds |-> 0]
    /\ total_time = [s \in LaunchIds |-> 0]
    /\ packets_sent = [s \in LaunchIds |-> 0]
    /\ packets_received = [s \in LaunchIds |-> 0]
    /\ errors = [s \in LaunchIds |-> 0]
    /\ success = [s \in LaunchIds |-> FALSE]
    /\ connect_attempts = [s \in LaunchIds |-> 0]
    /\ spacing = [s \in LaunchIds |-> "none"]
    /\ task_result = [s \in LaunchIds |-> NoResult]
    /\ BenchIdle

NextLaunch ==
    \/ Launch
    \/ StaggerWake
    \/ AwaitGather

SpecLaunch == InitLaunch /\ [][NextLaunch]_vars

\* ======================================================================
\* Nightly Report Generator: the collectors
\* ======================================================================

\* what `cargo test` can give: the command cannot be run, its output has no
\* "test result:" line, or it has libtest's summary line
\*     test result: <status>. <passed> passed; <failed> failed; ...
\* whose third word is the status word and whose sixth word is the number of
\* failed tests
CargoTestOutcomes ==
    [kind : {"not runnable", "no summary line"}, status : {"ok."}, failed : {0}]
        \cup [kind : {"summary line"}, status : {"ok.", "FAILED."}, failed : 0..MaxCount]

\* int(parts[2]) is applied to the status word, which is no integer literal
IntRaises(word) == word \in {"ok.", "FAILED."}

TestCounts(passed, failed) ==
    [passed |-> passed, failed |-> failed, total |-> passed + failed]

\* collect_test_results: the counts start at 0 and an exception anywhere in
\* the body, the ValueError of int() included, leaves them as they are
collect_test_results(outcome) ==
    [unit_tests |-> TestCounts(0, 0),
     integration_tests |-> TestCounts(0, 0),
     doc_tests |-> TestCounts(0, 0)]

TestResultsRaise(outcome) ==
    \/ outcome.kind = "not runnable"
    \/ outcome.kind = "summary line" /\ IntRaises(outcome.status)

CollectTestResults ==
    /\ tool = "nightly"
    /\ bpc = "start"
    /\ \E outcome \in CargoTestOutcomes :
          /\ report_data' = [report_data EXCEPT
                                !.test_results = collect_test_results(outcome)]
          /\ log' = IF TestResultsRaise(outcome)
                    THEN log \o <<Printed("error collecting test results",
                                          IF outcome.kind = "not runnable"
                                          THEN "FileNotFoundError" ELSE "ValueError")>>
                    ELSE log
    /\ bpc' = "tests"
    /\ UNCHANGED <<tool, file_format, current_data, baseline_data, baseline_exists,
                   update_baseline, comparisons, bench_report, chart, summary,
                   html_report, audit_output>>
    /\ UNCHANGED <<ltMainVars, sessVars>>

\* collect_performance_results: the benchmarks listed by benchmark_results.json
\* when the file is there and can be read
CollectPerformance ==
    /\ tool = "nightly"
    /\ bpc = "tests"
    /\ \E readable \in BOOLEAN, n \in 0..MaxCount :
          /\ ~readable => n = 0
          /\ report_data' = [report_data EXCEPT
                                !.performance_results = [benchmarks |-> n]]
    /\ bpc' = "performance"
    /\ UNCHANGED <<tool, file_format, current_data, baseline_data, baseline_exists,
                   update_baseline, comparisons, bench_report, chart, summary, log,
                   html_report, audit_output>>
    /\ UNCHANGED <<ltMainVars, sessVars>>

\* collect_coverage_results: the LF and LH totals of lcov.info; the line
\* coverage stays 0 without the file or without lines
collect_coverage_results(total_lines, covered_lines) ==
    IF total_lines > 0
    THEN [line_coverage |-> Rat(covered_lines * 100, total_lines),
          total_lines |-> total_lines, covered_lines |-> covered_lines]
    ELSE [line_coverage |-> Rat(0, 1), total_lines |-> 0, covered_lines |-> 0]

CollectCoverage ==
    /\ tool = "nightly"
    /\ bpc = "performance"
    /\ \E total_lines \in 0..MaxCount :
       \E covered_lines \in 0..total_lines :
          report_data' = [report_data EXCEPT
                             !.coverage_results =
                                 collect_coverage_results(total_lines, covered_lines)]
    /\ bpc' = "coverage"
    /\ UNCHANGED <<tool, file_format, current_data, baseline_data, baseline_exists,
                   update_baseline, comparisons, bench_report, chart, summary, log,
                   html_report, audit_output>>
    /\ UNCHANGED <<ltMainVars, sessVars>>

\* what `cargo audit` can give: whether it can be run, its exit status,
\* whether its output is JSON, and the number of vulnerabilities it lists
CargoAuditOutcomes ==
    [runnable : BOOLEAN, returncode : {0, 1}, json : BOOLEAN,
     vulnerabilities : 0..MaxCount]

\* collect_security_results: the output is read only when the exit status is 0
collect_security_results(audit) ==
    IF audit.runnable /\ audit.returncode = 0 /\ audit.json
    THEN [vulnerabilities |-> audit.vulnerabilities,
          audit_passed |-> audit.vulnerabilities = 0]
    ELSE [vulnerabilities |-> 0, audit_passed |-> TRUE]

CollectSecurity ==
    /\ tool = "nightly"
    /\ bpc = "coverage"
    /\ \E audit \in CargoAuditOutcomes :
          /\ audit_output' = audit
          /\ report_data' = [report_data EXCEPT
                                !.security_results = collect_security_results(audit)]
          /\ log' = IF audit.runnable THEN log
                    ELSE log \o <<Printed("error running security audit",
                                          "FileNotFoundError")>>
    /\ bpc' = "security"
    /\ UNCHANGED <<tool, file_format, current_data, baseline_data, baseline_exists,
                   update_baseline, comparisons, bench_report, chart, summary,
                   html_report>>
    /\ UNCHANGED <<ltMainVars, sessVars>>

\* collect_compatibility_results: the migration counts of the result files;
\* backward_compatibility is never read from a file
CollectCompatibility ==
    /\ tool = "nightly"
    /\ bpc = "security"
    /\ \E passed \in 0..MaxCount, failed \in 0..MaxCount :
          report_data' = [report_data EXCEPT
                             !.compatibility_results =
                                 [migration_tests |-> [passed |-> passed, failed |-> failed],
                                  backward_compatibility |-> TRUE]]
    /\ bpc' = "compatibility"
    /\ UNCHANGED <<tool, file_format, current_data, baseline_data, baseline_exists,
                   update_baseline, comparisons, bench_report, chart, summary, log,
                   html_report, audit_output>>
    /\ UNCHANGED <<ltMainVars, sessVars>>

\* ======================================================================
\* Nightly Report Generator: generate_html_report, generate_report, main
\* ======================================================================

\* the replacement fields of html_template, as str.format reads them: what
\* stands between single braces is a field name, also when it is written
\* as an expression
TemplateFields ==
    {"timestamp", "unit_status", "unit_passed", "unit_total", "integration_status",
     "integration_passed", "integration_total", "doc_status", "doc_passed",
     "doc_total", "coverage_status", "coverage", "benchmark_count",
     "performance_status", "security_status", "vulnerability_count", "audit_status",
     "\"PASS\" if audit_passed else \"FAIL\"", "migration_status",
     "migration_passed", "migration_total", "compat_status",
     "\"PASS\" if backward_compat else \"FAIL\"", "unit_failed",
     "unit_success_rate", "integration_failed", "integration_success_rate",
     "doc_failed", "doc_success_rate", "overall_status", "overall_result"}

\* the keyword arguments of html_template.format(...)
FormatArgs ==
    {"timestamp", "unit_passed", "unit_failed", "unit_total", "unit_success_rate",
     "unit_status", "integration_passed", "integration_failed", "integration_total",
     "integration_success_rate", "integration_status", "doc_passed", "doc_failed",
     "doc_total", "doc_success_rate", "doc_status", "coverage", "coverage_status",
     "benchmark_count", "performance_status", "vulnerability_count",
     "security_status", "audit_passed", "audit_status", "migration_passed",
     "migration_total", "migration_status", "backward_compat", "compat_status",
     "overall_result", "overall_status"}

KeyError == "KeyError"

\* str.format raises KeyError for a field that is no keyword argument
FormatRaises(fields, args) == \E f \in fields : f \notin args

\* the overall status computed from the collected data
overall_result(data) ==
    LET unit_failed == data.test_results.unit_tests.failed
        integration_failed == data.test_results.integration_tests.failed
        doc_failed == data.test_results.doc_tests.failed
        audit_passed == data.security_results.audit_passed
        backward_compat == data.compatibility_results.backward_compatibility
        all_tests_pass == /\ unit_failed = 0
                          /\ integration_failed = 0
                          /\ doc_failed = 0
                          /\ audit_passed
                          /\ backward_compat
    IN  IF all_tests_pass THEN "PASS" ELSE "FAIL"

coverage_status(coverage) ==
    IF RatGe(coverage, Rat(80, 1)) THEN "status-pass"
    ELSE IF RatGe(coverage, Rat(60, 1)) THEN "status-warn"
    ELSE "status-fail"

\* generate_html_report: the rendered page, or the exception format raises
generate_html_report(data) ==
    IF FormatRaises(TemplateFields, FormatArgs)
    THEN [kind |-> KeyError]
    ELSE [kind |-> "html",
          overall_result |-> overall_result(data),
          coverage_status |-> coverage_status(data.coverage_results.line_coverage),
          vulnerability_count |-> data.security_results.vulnerabilities,
          benchmark_count |-> data.performance_results.benchmarks]

\* the rest of generate_report and of main: render the page, write
\* nightly_report.html, then nightly_report.json.  Neither generate_report
\* nor main has an exception handler: an exception of the renderer leaves
\* main, the interpreter prints the traceback and the process ends with
\* status 1, nothing written
RenderAndSave ==
    /\ tool = "nightly"
    /\ bpc = "compatibility"
    /\ IF generate_html_report(report_data).kind = KeyError
       THEN /\ bpc' = "uncaught"
            /\ exit_code' = ExitFailure
            /\ UNCHANGED <<html_report, files>>
       ELSE /\ html_report' = generate_html_report(report_data)
            /\ files' = files \cup {"nightly_report.html", "nightly_report.json"}
            /\ bpc' = "done"
            /\ exit_code' = ExitSuccess
    /\ UNCHANGED <<tool, file_format, current_data, baseline_data, baseline_exists,
                   update_baseline, comparisons, bench_report, chart, summary, log,
                   report_data, audit_output>>
    /\ UNCHANGED <<num_connections, i, mpc, results, aggregate, report>>
    /\ UNCHANGED sessVars

\* ======================================================================
\* SpecNightly: one run of the Nightly Report Generator
\* ======================================================================

InitNightly ==
    /\ tool = "nightly"
    /\ file_format = "object"
    /\ log = <<>>
    /\ NightlyIdle
    /\ current_data = <<>>
    /\ baseline_data = <<>>
    /\ baseline_exists = FALSE
    /\ update_baseline = FALSE
    /\ comparisons = <<>>
    /\ bench_report = NoReport
    /\ chart = <<>>
    /\ summary = NoSummary
    /\ bpc = "start"
    /\ num_connections = 0
    /\ i = 0
    /\ mpc = "idle"
    /\ results = <<>>
    /\ aggregate = NoAggregate
    /\ report = None
    /\ files = {}
    /\ exit_code = None
    /\ SessionsIdle

NextNightly ==
    \/ CollectTestResults
    \/ CollectPerformance
    \/ CollectCoverage
    \/ CollectSecurity
    \/ CollectCompatibility
    \/ RenderAndSave

SpecNightly == InitNightly /\ [][NextNightly]_vars

\* ======================================================================
\* SpecMatch: one run of the Comparator on lists of up to MaxList entries
\* ======================================================================

\* the entries of the longer lists: both names, a value that is stable and
\* one that is a regression against a baseline of 20; a baseline of 0
MatchCurrent ==
    [name : Names, value : {20, 22}, unit : {"ms"}, lower_is_better : {TRUE}]
MatchBaseline ==
    [name : Names, value : {0, 20}, unit : {"ms"}, lower_is_better : {TRUE}]

InitMatch ==
    /\ tool = "comparator"
    /\ file_format = "object"
    /\ log = <<>>
    /\ NightlyIdle
    /\ current_data \in SeqsUpTo(MatchCurrent, MaxList)
    /\ baseline_exists \in BOOLEAN
    /\ baseline_data \in
          IF baseline_exists THEN SeqsUpTo(MatchBaseline, MaxList) ELSE {<<>>}
    /\ update_baseline \in BOOLEAN
    /\ comparisons = <<>>
    /\ bench_report = NoReport
    /\ chart = <<>>
    /\ summary = NoSummary
    /\ bpc = "start"
    /\ num_connections = 0
    /\ i = 0
    /\ mpc = "idle"
    /\ results = <<>>
    /\ aggregate = NoAggregate
    /\ report = None
    /\ files = {}
    /\ exit_code = None
    /\ SessionsIdle

NextMatch ==
    \/ ComparatorCompare
    \/ ComparatorWriteReport
    \/ ComparatorFinish

SpecMatch == InitMatch /\ [][NextMatch]_vars

\* ======================================================================
\* Properties of the Load Tester
\* ======================================================================

Aggregated == aggregate.kind = "LoadTestResults"

Returned(s) == task_result[s].kind = "ConnectionResult"

\* the sessions whose result is marked successful / unsuccessful
SuccSessions == { s \in Launched : Returned(s) /\ task_result[s].success }
FailSessions == { s \in Launched : Returned(s) /\ ~task_result[s].success }

RECURSIVE SumOver(_, _)
SumOver(S, f) ==
    IF S = {} THEN 0
    ELSE LET x == CHOOSE y \in S : TRUE IN f[x] + SumOver(S \ {x}, f)

\* C1: the aggregate returned by run_load_test always satisfies
\* successful_connections + failed_connections = total_connections.
C1_CountsAddUp ==
    Aggregated =>
        aggregate.successful_connections + aggregate.failed_connections
            = aggregate.total_connections

\* a run that lost one task to an exception and aggregated the other session
C1_Witness ==
    /\ mpc = "aggregated"
    /\ \E s \in Launched : pc[s] = "raised"
    /\ num_connections = 2
    /\ aggregate.total_connections = 1

\* C2: a session in its keep-alive loop with 10 errors issues no further
\* keep-alive request (neither its packet nor its error counter moves while
\* it is in the loop), and the result of a session whose connect succeeded
\* and that has 10 or more errors has success = FALSE.
C2_NoRequestAtLimit ==
    \A s \in Sessions :
        (pc[s] = "loop" /\ errors[s] >= ErrorLimit) =>
            /\ packets_sent'[s] = packets_sent[s]
            /\ packets_received'[s] = packets_received[s]
            /\ errors'[s] = errors[s]

C2_MarkedUnsuccessful ==
    \A s \in Sessions :
        (Returned(s) /\ success[s] /\ errors[s] >= ErrorLimit) =>
            ~task_result[s].success

C2_ErrorCutoff == [][C2_NoRequestAtLimit]_vars /\ []C2_MarkedUnsuccessful

\* a session whose connect succeeded, that reached the error limit inside the
\* loop by non-200 answers, and returned
C2_Witness ==
    \E s \in Sessions :
        /\ Returned(s)
        /\ success[s]
        /\ task_result[s].errors = ErrorLimit
        /\ ~task_result[s].success

\* C3: a result is marked successful only if the connect returned 200 (the
\* local success flag and a connect time were set) and the final error count
\* is below 10; the aggregate counts exactly those sessions as successful.
C3_SuccessOnlyIf ==
    /\ \A s \in Sessions :
          (Returned(s) /\ task_result[s].success) =>
              /\ success[s]
              /\ connect_time[s] >= 1
              /\ task_result[s].errors < ErrorLimit
              /\ errors[s] < ErrorLimit
    /\ Aggregated =>
          aggregate.successful_connections =
              Cardinality({ s \in Launched :
                  Returned(s) /\ success[s] /\ errors[s] < ErrorLimit })

\* a run that aggregated one session with a failed connect, and one session
\* that connected and whose errors stayed below the limit
C3_Witness ==
    /\ mpc = "aggregated"
    /\ \E s, t \in Launched :
          /\ Returned(s) /\ ~success[s]
          /\ Returned(t) /\ success[t] /\ errors[t] = ErrorLimit - 1
          /\ task_result[t].success
          /\ aggregate.successful_connections = 1

\* a failed request of session s: a connect or keep-alive call that raised or
\* returned a status other than 200
FailedRequest(s) ==
    \/ ConnectNon200(s)
    \/ ConnectRaise(s)
    \/ KeepAliveNon200(s)
    \/ KeepAliveRaise(s)

\* C4: every failed request of a session (connect or keep-alive, raised or
\* non-200) increments that session's error counter by exactly one.
C4_EveryFailureCounted ==
    [][\A s \in Sessions : FailedRequest(s) => errors'[s] = errors[s] + 1]_vars

\* C7: avg_connect_time and avg_response_time are the means of connect_time
\* and total_time over the sessions marked successful, and both are 0 when no
\* session succeeded.
C7_MeansOverSuccessful ==
    (Aggregated /\ mpc = "aggregated") =>
        LET n == Cardinality(SuccSessions)
            ct == [s \in Sessions |-> task_result[s].connect_time]
            tt == [s \in Sessions |-> task_result[s].total_time]
        IN  IF n = 0
            THEN /\ aggregate.avg_connect_time = <<0, 1>>
                 /\ aggregate.avg_response_time = <<0, 1>>
            ELSE /\ aggregate.avg_connect_time[1] * n
                      = aggregate.avg_connect_time[2] * SumOver(SuccSessions, ct)
                 /\ aggregate.avg_response_time[1] * n
                      = aggregate.avg_response_time[2] * SumOver(SuccSessions, tt)
                 /\ aggregate.avg_connect_time[2] >= 1
                 /\ aggregate.avg_response_time[2] >= 1

\* a run with a successful session and a failed session that has a connect
\* time and a total time of its own
C7_Witness ==
    /\ mpc = "aggregated"
    /\ \E s \in SuccSessions : \E t \in FailSessions :
          /\ task_result[t].connect_time >= 1
          /\ task_result[t].total_time # task_result[s].total_time

\* the locals of one session, and what its task ended with
SessionState(s) ==
    <<pc[s], connect_time[s], total_time[s], packets_sent[s], packets_received[s],
      errors[s], success[s], connect_attempts[s], spacing[s], task_result[s]>>

\* C8: a step changes the counters and the result of at most one session, so
\* a failure inside one session never touches another one; and whatever
\* failed, once run_load_test is past gather every launched session has
\* ended and every session that returned a result is in the aggregate.
C8_OneSessionPerStep ==
    \A s, t \in Sessions :
        s # t => ~(SessionState(s)' # SessionState(s) /\ SessionState(t)' # SessionState(t))

C8_AllAggregated ==
    mpc \notin {"launch", "stagger", "gather"} =>
        /\ AllTasksDone
        /\ Aggregated
        /\ Len(results) = num_connections
        /\ \A s \in Launched : results[s + 1] = task_result[s]
        /\ aggregate.total_connections
              = Cardinality({ s \in Launched : pc[s] = "returned" })

C8_FailureIsolation == [][C8_OneSessionPerStep]_vars /\ []C8_AllAggregated

\* a run in which one task ended with an exception and another session
\* connected, exchanged a packet and was aggregated as successful
C8_Witness ==
    /\ mpc = "aggregated"
    /\ \E s, t \in Launched :
          /\ pc[s] = "raised"
          /\ Returned(t) /\ task_result[t].success /\ task_result[t].packets_sent >= 1
    /\ aggregate.total_connections = num_connections - 1

\* the verdict and the counts of the report under way
Total == aggregate.total_connections
Succ == aggregate.successful_connections
PastReport == mpc \in {"reported", "json_written", "md_written", "exited"}

\* C5: the report shows PASS when successful/total >= 95%, WARNING when the
\* rate is >= 80% and < 95%, FAIL when it is below 80%, and an aggregate with
\* total > 0 always gets exactly one of the three.
C5_Verdict ==
    /\ PastReport =>
          /\ Total > 0
          /\ report \in {"PASS", "WARNING", "FAIL"}
          /\ report = "PASS" <=> 100 * Succ >= 95 * Total
          /\ report = "WARNING" <=> (100 * Succ >= 80 * Total /\ 100 * Succ < 95 * Total)
          /\ report = "FAIL" <=> 100 * Succ < 80 * Total
    /\ (Aggregated /\ Total > 0) => mpc # "failed"
    /\ ~PastReport => report = None

\* a report for a rate of exactly 95%
C5_Witness ==
    /\ PastReport
    /\ Total > 0
    /\ 100 * Succ = 95 * Total
    /\ report = "PASS"

\* C6: a run with a success rate (total > 0) exits with failure status
\* exactly when the rate is below 80%, which are the runs whose verdict is
\* FAIL; the WARNING and PASS bands exit successfully; and both files are
\* written whenever an exit status has been decided.
C6_ExitStatus ==
    /\ (Aggregated /\ Total > 0 /\ exit_code # None) =>
          /\ mpc = "exited"
          /\ exit_code = ExitFailure <=> 100 * Succ < 80 * Total
          /\ exit_code = ExitFailure <=> report = "FAIL"
          /\ exit_code = ExitSuccess <=> report \in {"PASS", "WARNING"}
          /\ files = {"load_test_results.json", "load_test_report.md"}
    /\ (Aggregated /\ Total > 0 /\ mpc = "exited") => exit_code # None

\* a run in the WARNING band, at exactly 80%, that exited successfully
C6_Witness ==
    /\ mpc = "exited"
    /\ Total > 0
    /\ 100 * Succ = 80 * Total
    /\ report = "WARNING"
    /\ exit_code = ExitSuccess

\* ======================================================================
\* Properties of the benchmark tools
\* ======================================================================

\* the change of cur against a non-zero base is above +5% / below -5%
UpMoreThan5(cur, base) ==
    IF base > 0 THEN 20 * (cur - base) > base ELSE 20 * (cur - base) < base
DownMoreThan5(cur, base) ==
    IF base > 0 THEN 20 * (cur - base) < -base ELSE 20 * (cur - base) > -base

\* the direction the Comparator read for a compared name
LowerIsBetter(name) == DictGet(load_current(current_data), name).lower_is_better

C10_ZeroBaselineNeverRaises ==
    /\ \A k \in 1..Len(comparisons) :
          (comparisons[k].baseline = 0 /\ comparisons[k].current > 0) =>
              comparisons[k].change_percent.inf
    /\ \A k \in 1..Len(chart) :
          (chart[k].baseline = 0 /\ chart[k].current > 0) => chart[k].change_percent.inf
    /\ (\E n \in Names :
            /\ ListHas(current_data, n) /\ FirstOf(current_data, n).value > 0
            /\ ListHas(ChartBaseline, n) /\ LastOf(ChartBaseline, n).value = 0)
          => summary.kind # ZeroDivisionError

\* ======================================================================
\* Properties of the Comparator's main
\* ======================================================================

\* the run loaded a baseline and got past the comparison
BaselineLoaded == tool = "comparator" /\ bench_report.kind = "report"

ReportWritten == "benchmark_report.md" \in files

\* C11, first part: in a run where a baseline was loaded the report file is
\* written before the run ends and before the baseline file is touched
C11_ReportFirst ==
    (BaselineLoaded /\ (exit_code' # exit_code \/ baseline_data' # baseline_data))
        => ReportWritten

\* C11, second part: such a run exits non-zero iff there is at least one
\* regression and --update-baseline was not given; with --update-baseline it
\* exits successfully and the baseline file holds the current results,
\* regressions or not
C11_ExitStatus ==
    (BaselineLoaded /\ bpc = "done") =>
        /\ ReportWritten
        /\ exit_code \in {ExitSuccess, ExitFailure}
        /\ exit_code = ExitFailure <=>
               ((\E k \in 1..Len(comparisons) : comparisons[k].regression)
                    /\ ~update_baseline)
        /\ update_baseline => (exit_code = ExitSuccess /\ baseline_data = current_data)

\* C11: Comparator exit contract
C11_ExitContract == [][C11_ReportFirst]_vars /\ []C11_ExitStatus

\* a finished run with --update-baseline that found a regression, exited
\* successfully after writing the report, and left the current results (an
\* entry with lower_is_better false, which no baseline file held at the
\* start) in the baseline file
C11_Witness ==
    /\ BaselineLoaded
    /\ bpc = "done"
    /\ update_baseline
    /\ \E k \in 1..Len(comparisons) : comparisons[k].regression
    /\ ReportWritten
    /\ exit_code = ExitSuccess
    /\ baseline_data = current_data
    /\ \E k \in 1..Len(current_data) : ~current_data[k].lower_is_better

\* the first line of the log says that the baseline file was missing
BaselineWasMissing ==
    log # <<>> /\ log[1] = Printed("warning: baseline file not found", "")

\* C12, as a step: the step main takes on a current results file (of the
\* object shape) when no baseline file exists copies the current results to
\* the baseline path, compares nothing, writes no report and ends the run
\* with success
C12_BootstrapStep ==
    (tool = "comparator" /\ bpc = "start" /\ ~baseline_exists
         /\ ~GetRaises(file_format) /\ bpc' # bpc) =>
        /\ baseline_exists'
        /\ baseline_data' = current_data
        /\ comparisons' = <<>>
        /\ bench_report' = NoReport
        /\ ~ReportWritten'
        /\ exit_code' = ExitSuccess
        /\ bpc' = "done"

\* C12, as a state: a run that found no baseline file has ended, and ended
\* as above
C12_BootstrapEnd ==
    (tool = "comparator" /\ BaselineWasMissing) =>
        /\ bpc = "done"
        /\ baseline_exists
        /\ baseline_data = current_data
        /\ comparisons = <<>>
        /\ ~ReportWritten
        /\ exit_code = ExitSuccess

\* C12: Comparator bootstrap
C12_Bootstrap == [][C12_BootstrapStep]_vars /\ []C12_BootstrapEnd

\* a run that found no baseline file and ended with a baseline file that
\* holds the (non-empty) current results, no report and exit status 0
C12_Witness ==
    /\ tool = "comparator"
    /\ BaselineWasMissing
    /\ bpc = "done"
    /\ current_data # <<>>
    /\ baseline_exists
    /\ baseline_data = current_data
    /\ files = {}
    /\ exit_code = ExitSuccess

\* ======================================================================
\* Properties of compare_benchmarks
\* ======================================================================

NamesOf(data) == { data[k].name : k \in 1..Len(data) }

\* the comparison is made and the baseline file is still the one loaded
Compared == BaselineLoaded /\ bpc \in {"compared", "reported"}

\* C13: compare_benchmarks returns exactly one Comparison for every name
\* listed in both the current results and the baseline and none for any
\* other name, so their number is the size of the intersection of the two
\* name sets; every name listed only in the current results is skipped with
\* a warning
C13_Matching ==
    Compared =>
        LET both == NamesOf(current_data) \cap NamesOf(baseline_data)
        IN  /\ \A n \in both :
                   Cardinality({ k \in 1..Len(comparisons) : comparisons[k].name = n }) = 1
            /\ \A k \in 1..Len(comparisons) : comparisons[k].name \in both
            /\ Len(comparisons) = Cardinality(both)
            /\ \A n \in NamesOf(current_data) \ both :
                   \E k \in 1..Len(log) : log[k] = Printed("warning: no baseline for", n)

\* a comparison of three current entries, two of them under one name that
\* the baseline lists and one under a name that it does not list, against a
\* baseline of one name: one Comparison and one warning
C13_Witness ==
    /\ Compared
    /\ Len(current_data) = 3
    /\ Cardinality(NamesOf(current_data)) = 2
    /\ Cardinality(NamesOf(baseline_data)) = 1
    /\ Len(comparisons) = 1
    /\ Len(log) = 1

\* ======================================================================
\* Properties of the Nightly Report Generator
\* ======================================================================

\* generate_report is over: it returned or it was left by an exception
NightlyOver == tool = "nightly" /\ bpc \in {"done", "uncaught"}

\* the collected data are clean: no failure in the unit, integration and doc
\* tests, the audit passed, backward compatibility holds
AllClean ==
    /\ report_data.test_results.unit_tests.failed = 0
    /\ report_data.test_results.integration_tests.failed = 0
    /\ report_data.test_results.doc_tests.failed = 0
    /\ report_data.security_results.audit_passed
    /\ report_data.compatibility_results.backward_compatibility

\* C14: once the report is generated its overall build status is PASS
\* exactly when the three test categories have no failure, the audit passed
\* and backward compatibility holds, and FAIL in every other case
C14_OverallStatus ==
    NightlyOver =>
        /\ html_report.kind = "html"
        /\ html_report.overall_result = (IF AllClean THEN "PASS" ELSE "FAIL")

\* C15: every run of generate_report ends having written nightly_report.html
\* and nightly_report.json
C15_BothFilesWritten ==
    NightlyOver =>
        /\ "nightly_report.html" \in files
        /\ "nightly_report.json" \in files

\* an exception has left main without being caught
EscapedMain == bpc = "uncaught" \/ mpc = "uncaught"

\* C16: no script lets an exception escape main uncaught
C16_NoEscape == ~EscapedMain

\* ======================================================================
\* Properties of the Chart Generator against the Comparator
\* ======================================================================

\* the Comparator's verdict on a current measurement and a baseline value
ComparatorClass(cur, baseline_value) ==
    LET c == ComparisonResult(cur, [name |-> cur.name, value |-> baseline_value,
                                    unit |-> cur.unit, lower_is_better |-> TRUE])
    IN  IF c.regression THEN "regression"
        ELSE IF c.improvement THEN "improvement"
        ELSE "stable"

ColorClass(color) ==
    IF color = "red" THEN "regression"
    ELSE IF color = "green" THEN "improvement"
    ELSE "stable"

\* the number of current items with a baseline value that the Comparator
\* puts in a class
ComparatorCount(data, baseline, class) ==
    Cardinality({ k \in 1..Len(data) :
                    /\ ListHas(baseline, data[k].name)
                    /\ ComparatorClass(data[k], LastOf(baseline, data[k].name).value)
                           = class })

\* C17: every bar of the comparison chart has the colour of the Comparator's
\* class of its pair, and the summary report counts every pair in the
\* bucket of the Comparator's class, pairs with a baseline value of 0
\* included
C17_SameClassification ==
    (tool = "charts" /\ bpc \in {"charted", "done", "failed"}) =>
        /\ \A k \in 1..Len(chart) :
               ColorClass(chart[k].color) =
                   ComparatorClass([name |-> chart[k].benchmark,
                                    value |-> chart[k].current,
                                    unit |-> chart[k].unit,
                                    lower_is_better |-> chart[k].lower_is_better],
                                   chart[k].baseline)
        /\ summary.kind = "summary" =>
               /\ summary.regressions =
                      ComparatorCount(current_data, ChartBaseline, "regression")
               /\ summary.improvements =
                      ComparatorCount(current_data, ChartBaseline, "improvement")
               /\ summary.stable =
                      ComparatorCount(current_data, ChartBaseline, "stable")

\* the Chart Generator run is over
ChartsOver == tool = "charts" /\ bpc \in {"done", "failed"}

\* C18: a results file of the object shape {"benchmarks": [...]} that the
\* Comparator loads as n >= 1 measurements is loaded by the Chart Generator
\* as the same n measurements: its run does not end in the handler with a
\* TypeError, and it reports on n benchmarks
C18_SameMeasurements ==
    (ChartsOver /\ file_format = "object" /\ ~GetRaises(file_format)
         /\ Len(load_current(current_data)) > 0) =>
        /\ load_benchmark_results(file_format, current_data).kind = "list"
        /\ \A k \in 1..Len(log) : log[k] # Printed("error generating charts", "TypeError")
        /\ summary.kind = "summary" => summary.total = Len(load_current(current_data))

\* ======================================================================
\* Properties of the Load Tester's launch loop and join
\* ======================================================================

\* C19, as a state: when the aggregate exists every requested session was
\* launched and has completed, and the list the aggregate was computed from
\* holds what each task ended with
C19_AllCompleted ==
    Aggregated =>
        /\ i = num_connections
        /\ AllTasksDone
        /\ results = GatherResults

\* C19, as a step: from the step that computes the aggregate on no session
\* runs and no Session Result changes
C19_Frozen == (Aggregated \/ Aggregated') => sessVars' = sessVars

\* C19: Load Tester fan-in barrier
C19_FanInBarrier == [][C19_Frozen]_vars /\ []C19_AllCompleted

\* a run of two sessions that both returned a result after a keep-alive
\* loop, one of them at the error limit, and that has ended after the
\* aggregation
C19_Witness ==
    /\ mpc = "exited"
    /\ Aggregated
    /\ num_connections = 2
    /\ \A s \in Launched : Returned(s) /\ task_result[s].connect_time >= 1
    /\ \E s \in Launched : task_result[s].errors = ErrorLimit
    /\ \E s \in Launched : task_result[s].success

\* the launcher is in its staggering pause
Pausing == mpc = "stagger"

\* C20, the pauses that are taken: the launcher pauses only when the number
\* of sessions launched so far is a multiple of 10
C20_PauseOnlyAfterTenth == Pausing => (i > 0 /\ i % StaggerEvery = 0)

\* C20, the pauses that are due: the step that launches the 10th, 20th, ...
\* session is followed by a pause when another session is still to launch
C20_PauseAfterTenth ==
    (i' = i + 1 /\ i' % StaggerEvery = 0 /\ i' < num_connections) => Pausing'

\* C20: Load Tester staggering
C20_Staggering == [][C20_PauseAfterTenth]_vars /\ []C20_PauseOnlyAfterTenth

\* ======================================================================
\* Properties of one session's requests
\* ======================================================================

\* the step is a keep-alive request of session s: an iteration of its loop
KeepAliveRequest(s) ==
    /\ pc[s] = "loop"
    /\ \/ packets_sent'[s] # packets_sent[s]
       \/ errors'[s] # errors[s]

\* C21: a keep-alive request that is not the session's first is issued after
\* the session slept the 100ms interval since its previous request, whatever
\* that request ended with (200, another status, an exception)
C21_SleepBetweenRequests ==
    \A s \in Sessions :
        (KeepAliveRequest(s) /\ spacing[s] # "none") => spacing[s] = "slept"

C21_KeepAliveSpacing == [][C21_SleepBetweenRequests]_vars

\* the session made its connect attempt and the attempt did not succeed
ConnectFailed(s) == connect_attempts[s] = 1 /\ ~success[s]

\* C22, the attempts: a session calls connect once, when it starts, and
\* never again
C22_OneAttempt ==
    \A s \in Sessions :
        /\ connect_attempts[s] <= 1
        /\ connect_attempts[s] = 0 <=> pc[s] \in {"absent", "created"}

\* C22, after a failed connect: the session is past its loop, about to end
\* or ended, it has sent nothing, and the result it returns says
\* packets_sent = 0 and success = false
C22_FailedConnectState ==
    \A s \in Sessions :
        ConnectFailed(s) =>
            /\ pc[s] \in {"closing", "returned", "raised"}
            /\ packets_sent[s] = 0
            /\ spacing[s] = "none"
            /\ Returned(s) =>
                  /\ task_result[s].packets_sent = 0
                  /\ ~task_result[s].success

\* C22, the steps after a failed connect: no keep-alive request, and the
\* session's next step ends it
C22_FailedConnectStep ==
    \A s \in Sessions :
        ConnectFailed(s) =>
            /\ ~KeepAliveRequest(s)
            /\ SessionState(s)' # SessionState(s) => pc'[s] \in {"returned", "raised"}

\* C22: Load Tester no-retry connect
C22_NoRetryConnect ==
    [][C22_FailedConnectStep]_vars /\ []C22_OneAttempt /\ []C22_FailedConnectState

\* two sessions whose single connect attempt failed, one by a status other
\* than 200 and one by an exception, and that returned their results
C22_Witness ==
    /\ num_connections = 2
    /\ \A s \in Launched : ConnectFailed(s) /\ Returned(s)
    /\ \E s \in Launched : task_result[s].errors = 0
    /\ \E s \in Launched : task_result[s].errors = 1
    /\ \A s \in Launched : task_result[s].packets_sent = 0 /\ ~task_result[s].success

\* ======================================================================
\* Properties of the Load Tester's aggregate and report
\* ======================================================================

\* C23: every one of the N requested sessions has exactly one Session Result
\* in the list the aggregate is computed from, so total_connections = N
C23_AllSessionsCounted ==
    Aggregated =>
        /\ \A s \in Launched :
               Cardinality({ k \in 1..Len(results) :
                               /\ IsConnectionResult(results[k])
                               /\ results[k].connection_id = s }) = 1
        /\ aggregate.total_connections = num_connections

\* main is over: it exited after the report, or through its handler
MainOver == mpc \in {"exited", "failed"}

\* C24: a run whose aggregate has total_connections = 0 ends with a verdict
\* and with both result files written, not in main's exception handler
C24_EmptyRunCompletes ==
    (Aggregated /\ aggregate.total_connections = 0 /\ MainOver) =>
        /\ mpc = "exited"
        /\ report # None
        /\ "load_test_results.json" \in files
        /\ "load_test_report.md" \in files

\* ======================================================================
\* Properties of the Comparator's flags and report sections
\* ======================================================================

\* the sections of the report that list the comparison c
SectionsListing(c) ==
    { sec \in {"regressions", "improvements", "stable"} :
        \E j \in 1..Len(bench_report[sec]) : bench_report[sec][j] = c }

\* C25: no comparison has both its regression and its improvement flag set,
\* whatever the direction, the sign of the baseline, or a zero baseline; so
\* the report lists every compared measurement in exactly one of its three
\* sections and the three summary counts sum to the total.
C25_Partition ==
    /\ \A k \in 1..Len(comparisons) :
          ~(comparisons[k].regression /\ comparisons[k].improvement)
    /\ BaselineLoaded =>
          /\ \A k \in 1..Len(comparisons) :
                Cardinality(SectionsListing(comparisons[k])) = 1
          /\ bench_report.total = Len(comparisons)
          /\ Len(bench_report.regressions) + Len(bench_report.improvements)
                + Len(bench_report.stable) = bench_report.total

\* a report over a zero-baseline comparison with an unbounded change, listed
\* as a regression only
C25_Witness ==
    /\ BaselineLoaded
    /\ \E k \in 1..Len(comparisons) :
          /\ comparisons[k].baseline = 0
          /\ comparisons[k].change_percent.inf
          /\ SectionsListing(comparisons[k]) = {"regressions"}

\* a step of the Comparator that writes the baseline file
BaselineWritten ==
    tool = "comparator"
        /\ (baseline_data' # baseline_data \/ baseline_exists' # baseline_exists)

\* C26: a run without --update-baseline never modifies a baseline file that
\* already exists, an existing baseline file with an empty benchmarks list
\* included: the baseline file is written only when it was missing or when
\* promotion was requested.
C26_BaselineFrameStep == BaselineWritten => (~baseline_exists \/ update_baseline)

C26_BaselineFrame == [][C26_BaselineFrameStep]_vars

\* ======================================================================
\* Properties of the Nightly Report Generator's security section
\* ======================================================================

\* collect_security_results has run
SecurityCollected ==
    tool = "nightly" /\ bpc \in {"security", "compatibility", "done", "uncaught"}

\* the audit tool ran and its JSON output lists at least one vulnerability
ListsVulnerability ==
    audit_output.runnable /\ audit_output.json /\ audit_output.vulnerabilities >= 1

\* C27: whenever the output of the audit tool lists at least one
\* vulnerability, the collected audit_passed flag is false and the overall
\* build status is FAIL, whatever exit status the audit tool returned.
C27_SecurityStatus ==
    (SecurityCollected /\ ListsVulnerability) =>
        /\ ~report_data.security_results.audit_passed
        /\ NightlyOver =>
              (html_report.kind = "html" /\ html_report.overall_result = "FAIL")

====
